---- MODULE Spec2Model ----
(***************************************************************************)
(* Model of the discovery engine core (core/src/engine.rs): the Engine     *)
(* with its Stacks and ranker, its construction paths, the update cycle,   *)
(* feed retrieval, feedback ingestion and (de)serialization.               *)
(***************************************************************************)
EXTENDS Integers, Sequences, FiniteSets, TLC

(***************************************************************************)
(* Bounds of the model.                                                    *)
(***************************************************************************)
\* Largest number of feedback events the ranker's CoI state records.
MaxCoi == 1
\* Largest value of a Stack's alpha / beta relevance counters.
MaxRelevance == 2
\* Largest max_documents passed to get_feed_documents.
MaxFeed == 1
\* Largest number of operations called on one Engine.
MaxCalls == 1
\* Number of articles of a short page returned by a provider.
SmallPage == 3
\* Number of articles of a full page returned by a provider.
FullPage == 22

(***************************************************************************)
(* Program constants.                                                      *)
(***************************************************************************)
select_top == 3
keep_top == 20
request_new == 3
\* usize::MAX, the threshold of the initial update cycle; no Stack of the
\* model is longer, which is all the code uses it for.
usize_MAX == 2147483647
\* Stack ids (uuids in the code) of the two pipelines of from_config.
BreakingNewsId == 1
PersonalizedNewsId == 2
\* The id of a pipeline that no longer exists, found in old stored state.
ObsoleteId == 3

StackIds == {BreakingNewsId, PersonalizedNewsId}
\* The stack operations an Engine is constructed with (by their ids).
StackOps == {{}, {BreakingNewsId}, StackIds}

(***************************************************************************)
(* Values.                                                                 *)
(***************************************************************************)
\* StackData::default(): the Beta prior of the arm and no documents.
DefaultStackData == [alpha |-> 1, beta |-> 1, documents |-> <<>>]

NoError == [kind |-> "none", id |-> 0, errors |-> <<>>]
SimpleError(kind) == [kind |-> kind, id |-> 0, errors |-> <<>>]
InvalidStackIdError(id) == [kind |-> "InvalidStackId", id |-> id, errors |-> <<>>]
ErrorsError(errors) == [kind |-> "Errors", id |-> 0, errors |-> errors]

Ok(op, documents) == [op |-> op, ok |-> TRUE, error |-> NoError, documents |-> documents]
Err(op, error) == [op |-> op, ok |-> FALSE, error |-> error, documents |-> <<>>]

EmptyMap == [id \in {} |-> DefaultStackData]
Insert(map, key, value) ==
    [k \in DOMAIN map \cup {key} |-> IF k = key THEN value ELSE map[k]]

Contains(seq, x) == \E i \in 1..Len(seq) : seq[i] = x
\* All the orders in which a HashMap with the keys S can be iterated.
Orders(S) == {o \in [1..Cardinality(S) -> S] : \A i, j \in 1..Cardinality(S) : o[i] = o[j] => i = j}

(***************************************************************************)
(* The ranker: its CoI state counts the feedback events it has accepted.   *)
(***************************************************************************)
NewRanker == [coi |-> 0]
Rankers == [coi : 0..MaxCoi]

\* The score the ranker gives a document under its current CoI state.
Score(document, rk) == (document * (rk.coi + 1)) % 3

\* Stack::rank: reorder descending by score, ties keep their order.
Rank(documents, rk) ==
    SelectSeq(documents, LAMBDA d : Score(d, rk) = 2)
        \o SelectSeq(documents, LAMBDA d : Score(d, rk) = 1)
        \o SelectSeq(documents, LAMBDA d : Score(d, rk) = 0)

\* Data::retain_top: keep the n highest ranked documents.
RetainTop(documents, n) ==
    IF Len(documents) <= n THEN documents ELSE SubSeq(documents, 1, n)

(***************************************************************************)
(* Pipelines (stack operations).                                           *)
(***************************************************************************)
\* BreakingNews::merge appends the new documents.
BreakingNewsMerge(stack, new) == stack \o new
\* PersonalizedNews::merge puts the more recent (new) documents first.
PersonalizedNewsMerge(stack, new) == new \o stack
Merge(id, stack, new) ==
    IF id = BreakingNewsId THEN BreakingNewsMerge(stack, new)
    ELSE PersonalizedNewsMerge(stack, new)

\* Stack::filter_articles: drop the articles the stack already holds.
FilterArticles(stack, articles) ==
    SelectSeq(articles, LAMBDA a : ~Contains(stack, a))

\* Stack::new validates the data it is given.
ValidStackData(data) == data.alpha >= 1 /\ data.beta >= 1

\* A page of n articles as a provider returns it.
Page(n) == [i \in 1..n |-> i]
Batches == {Page(SmallPage), Page(FullPage)}

MarketLists == {<<>>, <<"de">>}



(***************************************************************************)
(* The update cycle (Engine::update_stacks).                               *)
(***************************************************************************)
\* The stage of a Stack's update that its collaborators make fail, if it is
\* reached: the provider (new_items), the pipeline's filter, the embedding
\* of a title (compute_smbert), document_from_article, or Stack::update
\* (merge and rank).
FailStages ==
    {"none", "new_items", "filter_articles", "compute_smbert",
     "document_from_article", "update"}

\* What the collaborators of one Stack do in one cycle.  BreakingNews sends
\* one request per market: without markets nothing is fetched and nothing
\* can fail to be fetched.
StackInputs(mk) ==
    IF mk = <<>>
    THEN [fail : FailStages \ {"new_items"}, articles : {<<>>}]
    ELSE {[fail |-> "new_items", articles |-> <<>>]}
             \cup [fail : {"none"}, articles : Batches]
             \cup [fail : FailStages \ {"none", "new_items"}, articles : {Page(SmallPage)}]

\* Stack::update: merge the new documents, rank, and only then store.
StackUpdate(data, id, new, rk) ==
    [data EXCEPT !.documents = Rank(Merge(id, data.documents, new), rk)]

\* A loop body that keeps the articles embedded before one fails.
ProcessStackPartialBatch(data, id, rk, in) ==
    LET filtered == FilterArticles(data.documents, in.articles)
        updated == StackUpdate(data, id, filtered, rk)
        partial == StackUpdate(data, id, SubSeq(filtered, 1, Len(filtered) - 1), rk)
    IN  IF in.fail \in {"new_items", "filter_articles"}
        THEN [error |-> "StackOpFailed", data |-> data]
        ELSE IF in.fail = "compute_smbert" /\ filtered # <<>>
        THEN [error |-> "Ranker", data |-> partial]
        ELSE IF in.fail = "document_from_article" /\ filtered # <<>>
        THEN [error |-> "Document", data |-> partial]
        ELSE IF in.fail = "update"
        THEN [error |-> "StackOpFailed", data |-> data]
        ELSE [error |-> "none",
              data |-> [updated EXCEPT !.documents = RetainTop(@, keep_top)]]

\* A loop body without retain_top.
ProcessStackKeepAll(data, id, rk, in) ==
    LET filtered == FilterArticles(data.documents, in.articles)
        updated == StackUpdate(data, id, filtered, rk)
    IN  IF in.fail \in {"new_items", "filter_articles"}
        THEN [error |-> "StackOpFailed", data |-> data]
        ELSE IF in.fail = "compute_smbert" /\ filtered # <<>>
        THEN [error |-> "Ranker", data |-> data]
        ELSE IF in.fail = "document_from_article" /\ filtered # <<>>
        THEN [error |-> "Document", data |-> data]
        ELSE IF in.fail = "update"
        THEN [error |-> "StackOpFailed", data |-> data]
        ELSE [error |-> "none", data |-> updated]

\* The body of the loop for one Stack that is at or under the threshold:
\* the error it pushes ("none" when the Stack was updated) and the data the
\* Stack is left with.
ProcessStack(data, id, rk, in) ==
    LET filtered == FilterArticles(data.documents, in.articles)
        updated == StackUpdate(data, id, filtered, rk)
    IN  IF in.fail \in {"new_items", "filter_articles"}
        THEN [error |-> "StackOpFailed", data |-> data]
        ELSE IF in.fail = "compute_smbert" /\ filtered # <<>>
        THEN [error |-> "Ranker", data |-> data]
        ELSE IF in.fail = "document_from_article" /\ filtered # <<>>
        THEN [error |-> "Document", data |-> data]
        ELSE IF in.fail = "update"
        THEN [error |-> "StackOpFailed", data |-> data]
        ELSE [error |-> "none",
              data |-> [updated EXCEPT !.documents = RetainTop(@, keep_top)]]

\* Whether the cycle requests new items for a Stack.
NeedsNewItems(data, threshold) == Len(data.documents) <= threshold

\* The loop as it would be if the first failure ended it.
RECURSIVE UpdateLoopAbort(_, _, _, _, _)
UpdateLoopAbort(order, rk, threshold, inputs, acc) ==
    IF order = <<>> THEN acc
    ELSE LET id == Head(order)
             data == acc.stacks[id]
         IN  IF NeedsNewItems(data, threshold)
             THEN LET out == ProcessStack(data, id, rk, inputs[id])
                  IN  IF out.error = "none"
                      THEN UpdateLoopAbort(Tail(order), rk, threshold, inputs,
                               [stacks |-> [acc.stacks EXCEPT ![id] = out.data],
                                errors |-> acc.errors,
                                log |-> [acc.log EXCEPT ![id] = out.error]])
                      ELSE [stacks |-> acc.stacks,
                            errors |-> Append(acc.errors, out.error),
                            log |-> [acc.log EXCEPT ![id] = out.error]]
             ELSE UpdateLoopAbort(Tail(order), rk, threshold, inputs, acc)

\* The loop over the Stacks, in the iteration order of the HashMap.  The log
\* tells for each Stack whether it was skipped, updated ("none") or which
\* error it pushed.
RECURSIVE UpdateLoop(_, _, _, _, _)
UpdateLoop(order, rk, threshold, inputs, acc) ==
    IF order = <<>> THEN acc
    ELSE LET id == Head(order)
             data == acc.stacks[id]
         IN  IF NeedsNewItems(data, threshold)
             THEN LET out == ProcessStack(data, id, rk, inputs[id])
                  IN  UpdateLoop(Tail(order), rk, threshold, inputs,
                          [stacks |-> [acc.stacks EXCEPT ![id] = out.data],
                           errors |-> IF out.error = "none" THEN acc.errors
                                      ELSE Append(acc.errors, out.error),
                           log |-> [acc.log EXCEPT ![id] = out.error]])
             ELSE UpdateLoop(Tail(order), rk, threshold, inputs, acc)

UpdateStacks(st, rk, threshold, inputs, order) ==
    UpdateLoop(order, rk, threshold, inputs,
               [stacks |-> st, errors |-> <<>>,
                log |-> [id \in DOMAIN st |-> "skipped"]])

\* The Result of update_stacks.
UpdateResult(op, errors, docs) ==
    IF errors = <<>> THEN Ok(op, docs) ELSE Err(op, ErrorsError(errors))

(***************************************************************************)
(* rank_stacks: re-rank every Stack, collecting the failures.              *)
(***************************************************************************)
\* rank_stacks that stops at the first Stack whose rank fails.
RECURSIVE RankLoopAbort(_, _, _, _)
RankLoopAbort(order, rk, rank_ok, acc) ==
    IF order = <<>> THEN acc
    ELSE LET id == Head(order)
         IN  IF rank_ok[id]
             THEN RankLoopAbort(Tail(order), rk, rank_ok,
                      [acc EXCEPT !.stacks[id].documents = Rank(@, rk)])
             ELSE [acc EXCEPT !.errors = Append(@, "StackOpFailed")]

RECURSIVE RankLoop(_, _, _, _)
RankLoop(order, rk, rank_ok, acc) ==
    IF order = <<>> THEN acc
    ELSE LET id == Head(order)
         IN  IF rank_ok[id]
             THEN RankLoop(Tail(order), rk, rank_ok,
                      [acc EXCEPT !.stacks[id].documents = Rank(@, rk)])
             ELSE RankLoop(Tail(order), rk, rank_ok,
                      [acc EXCEPT !.errors = Append(@, "StackOpFailed")])

rank_stacks(st, rk, rank_ok, order) ==
    RankLoop(order, rk, rank_ok, [stacks |-> st, errors |-> <<>>])

\* The outcome of stack.rank for each Stack of one rank_stacks call.
RankLog(rank_ok) ==
    [id \in DOMAIN rank_ok |-> IF rank_ok[id] THEN "ranked" ELSE "StackOpFailed"]

(***************************************************************************)
(* Selection (SelectionIter::select): draw the top document of a non-empty *)
(* Stack, chosen by the sampler, until max_documents are drawn or every    *)
(* Stack is empty.                                                         *)
(***************************************************************************)
NonEmpty(st) == {id \in DOMAIN st : st[id].documents # <<>>}

RECURSIVE Selections(_, _)
Selections(st, n) ==
    IF n = 0 \/ NonEmpty(st) = {}
    THEN {[documents |-> <<>>, stacks |-> st]}
    ELSE UNION {
            {[documents |-> <<Head(st[id].documents)>> \o rest.documents,
              stacks |-> rest.stacks] :
                rest \in Selections([st EXCEPT ![id].documents = Tail(@)], n - 1)} :
            id \in NonEmpty(st)}

(***************************************************************************)
(* Serialization (bincode): a map is its length followed by its entries,   *)
(* a Vec its length followed by its elements.                              *)
(***************************************************************************)
EncodeData(data) ==
    <<data.alpha, data.beta, Len(data.documents)>> \o data.documents

RECURSIVE EncodeEntries(_, _)
EncodeEntries(st, order) ==
    IF order = <<>> THEN <<>>
    ELSE <<Head(order)>> \o EncodeData(st[Head(order)]) \o EncodeEntries(st, Tail(order))

EncodeStacks(st, order) == <<Len(order)>> \o EncodeEntries(st, order)

RECURSIVE DecodeEntries(_, _, _, _)
DecodeEntries(bytes, pos, n, map) ==
    IF n = 0 THEN [ok |-> TRUE, map |-> map]
    ELSE IF pos + 3 > Len(bytes) THEN [ok |-> FALSE, map |-> EmptyMap]
    ELSE LET len == bytes[pos + 3]
         IN  IF len < 0 \/ pos + 3 + len > Len(bytes)
             THEN [ok |-> FALSE, map |-> EmptyMap]
             ELSE DecodeEntries(bytes, pos + 4 + len, n - 1,
                      Insert(map, bytes[pos],
                             [alpha |-> bytes[pos + 1], beta |-> bytes[pos + 2],
                              documents |-> SubSeq(bytes, pos + 4, pos + 3 + len)]))

DecodeStacks(bytes) ==
    IF bytes = <<>> \/ bytes[1] < 0 THEN [ok |-> FALSE, map |-> EmptyMap]
    ELSE DecodeEntries(bytes, 2, bytes[1], EmptyMap)

\* Ranker::serialize and Builder::with_serialized_state.
EncodeRanker(rk) == <<rk.coi>>
DecodeRanker(bytes) ==
    IF Len(bytes) = 1 /\ bytes[1] >= 0
    THEN [ok |-> TRUE, ranker |-> [coi |-> bytes[1]]]
    ELSE [ok |-> FALSE, ranker |-> NewRanker]

\* State {engine: StackState, ranker: RankerState}.
EncodeState(engine_bytes, ranker_bytes) ==
    <<Len(engine_bytes)>> \o engine_bytes \o <<Len(ranker_bytes)>> \o ranker_bytes

NoState == [ok |-> FALSE, engine |-> <<>>, ranker |-> <<>>]
DecodeState(bytes) ==
    IF bytes = <<>> \/ bytes[1] < 0 \/ bytes[1] + 2 > Len(bytes) THEN NoState
    ELSE LET e == bytes[1]
             r == bytes[e + 2]
         IN  IF r < 0 \/ e + 2 + r > Len(bytes) THEN NoState
             ELSE [ok |-> TRUE,
                   engine |-> SubSeq(bytes, 2, e + 1),
                   ranker |-> SubSeq(bytes, e + 3, e + 2 + r)]


(***************************************************************************)
(* State.                                                                  *)
(***************************************************************************)
VARIABLES
    engine,     \* "none" before construction and after the drop, else "ready"
    stacks,     \* Engine.stacks: StackId -> StackData
    ranker,     \* Engine.ranker
    markets,    \* Engine.config.markets
    saved,      \* the bytes the last successful serialize() returned
    snapshot,   \* the Stacks and the ranker as they were at that serialize()
    pc,         \* the operation in progress or last completed, and whether
                \* it is at its update cycle
    args,       \* the arguments of that operation
    documents,  \* get_feed_documents: the documents drawn by the selection
    result,     \* the Result of the last completed operation
    cycle,      \* the log of the update cycle of that operation
    calls       \* the number of operations called on this Engine

vars ==
    <<engine, stacks, ranker, markets, saved, snapshot, pc, args, documents,
      result, cycle, calls>>

Constructors == {"new", "from_state", "from_config"}

Idle(op) == [at |-> "idle", op |-> op]
AtUpdate(op) == [at |-> "update_stacks", op |-> op]
Pending == Ok("pending", <<>>)
NoCycle == EmptyMap
NoSnapshot == [stacks |-> EmptyMap, ranker |-> NewRanker]

\* The arguments of an operation: the stack operations (by id) and the
\* StackState bytes of a construction, with the Stack data those bytes were
\* serialized from; the stack id of a reaction; max_documents; the markets
\* of set_markets.
Args(stack_ops, state, stack_id, max_documents) ==
    [stack_ops |-> stack_ops, state |-> state.bytes, stored |-> state.data,
     stack_id |-> stack_id, max_documents |-> max_documents, markets |-> <<>>]
NoStored == [bytes |-> <<>>, data |-> EmptyMap]
NoArgs == Args({}, NoStored, 0, 0)

\* The bytes of a stored StackState, with the data they were serialized from.
Stored(data, order) == [bytes |-> EncodeStacks(data, order), data |-> data]

\* Stored states that did not come from this build of the engine:
\* undecodable bytes, the state of an obsolete pipeline whose data is no
\* longer valid, a state of BreakingNews and an obsolete pipeline, and a
\* state whose PersonalizedNews data is invalid.
ForeignStackStates ==
    {NoStored,
     Stored((ObsoleteId :> [alpha |-> 0, beta |-> 1, documents |-> <<>>]),
            <<ObsoleteId>>),
     Stored((BreakingNewsId :> [alpha |-> 2, beta |-> 1, documents |-> <<5, 4>>])
                @@ (ObsoleteId :> DefaultStackData),
            <<BreakingNewsId, ObsoleteId>>),
     Stored((PersonalizedNewsId :> [alpha |-> 0, beta |-> 1, documents |-> <<>>]),
            <<PersonalizedNewsId>>)}

\* The StackState of the State that serialize() returned last.
SavedStackStates ==
    IF DecodeState(saved).ok
    THEN {[bytes |-> DecodeState(saved).engine, data |-> snapshot.stacks]}
    ELSE {}

Init ==
    /\ engine = "none"
    /\ stacks = EmptyMap
    /\ ranker = NewRanker
    /\ markets = <<>>
    /\ saved = <<>>
    /\ snapshot = NoSnapshot
    /\ pc = Idle("init")
    /\ args = NoArgs
    /\ documents = <<>>
    /\ result = Ok("init", <<>>)
    /\ cycle = NoCycle
    /\ calls = 0

(***************************************************************************)
(* Construction.                                                           *)
(***************************************************************************)
\* Engine::from_stack_data up to the initial update cycle: one Stack per
\* operation, made of the data that stack_data gives for its id.
from_stack_data(data) ==
    IF \E id \in DOMAIN data : ~ValidStackData(data[id])
    THEN [error |-> "InvalidStack", stacks |-> EmptyMap]
    ELSE [error |-> "none", stacks |-> data]

\* Engine::new
new_engine(stack_ops) ==
    from_stack_data([id \in stack_ops |-> DefaultStackData])

\* from_state as it would be if it ignored the stored data.
from_state_engine_fresh(state, stack_ops) ==
    IF stack_ops = {}
    THEN [error |-> "NoStackOps", stacks |-> EmptyMap]
    ELSE IF ~DecodeStacks(state).ok
    THEN [error |-> "Deserialization", stacks |-> EmptyMap]
    ELSE from_stack_data([id \in stack_ops |-> DefaultStackData])

\* from_state as it would be if it rejected a state that holds the data of
\* an unknown pipeline.
from_state_engine_strict(state, stack_ops) ==
    IF stack_ops = {}
    THEN [error |-> "NoStackOps", stacks |-> EmptyMap]
    ELSE LET stack_data == DecodeStacks(state)
         IN  IF ~stack_data.ok \/ ~(DOMAIN stack_data.map \subseteq stack_ops)
             THEN [error |-> "Deserialization", stacks |-> EmptyMap]
             ELSE from_stack_data(
                      [id \in stack_ops |-> IF id \in DOMAIN stack_data.map
                                            THEN stack_data.map[id]
                                            ELSE DefaultStackData])

\* Engine::from_state
from_state_engine(state, stack_ops) ==
    IF stack_ops = {}
    THEN [error |-> "NoStackOps", stacks |-> EmptyMap]
    ELSE LET stack_data == DecodeStacks(state)
         IN  IF ~stack_data.ok
             THEN [error |-> "Deserialization", stacks |-> EmptyMap]
             ELSE from_stack_data(
                      [id \in stack_ops |-> IF id \in DOMAIN stack_data.map
                                            THEN stack_data.map[id]
                                            ELSE DefaultStackData])

\* A construction either fails or goes on to its initial update cycle.
Construct(op, a, c, rk, mk) ==
    /\ args' = a
    /\ cycle' = NoCycle
    /\ documents' = <<>>
    /\ calls' = 0
    /\ IF c.error # "none"
       THEN /\ result' = Err(op, SimpleError(c.error))
            /\ pc' = Idle(op)
            /\ UNCHANGED <<engine, stacks, ranker, markets>>
       ELSE /\ result' = Pending
            /\ pc' = AtUpdate(op)
            /\ stacks' = c.stacks
            /\ ranker' = rk
            /\ markets' = mk
            /\ UNCHANGED engine
    /\ UNCHANGED <<saved, snapshot>>

CanConstruct == engine = "none" /\ pc.at = "idle"

new ==
    /\ CanConstruct
    /\ \E mk \in MarketLists, stack_ops \in StackOps :
         Construct("new", Args(stack_ops, NoStored, 0, 0), new_engine(stack_ops),
                   NewRanker, mk)

from_state_of(states) ==
    /\ CanConstruct
    /\ \E mk \in MarketLists, rk \in Rankers, stack_ops \in StackOps, state \in states :
         Construct("from_state", Args(stack_ops, state, 0, 0),
                   from_state_engine(state.bytes, stack_ops), rk, mk)

\* Engine::from_state on a state stored by another build of the engine.
from_state == from_state_of(ForeignStackStates)

\* Engine::from_state on the state that serialize() returned.
from_saved_state == from_state_of(SavedStackStates)

\* XaynAiEngine::from_config with the stored state, or without one.
from_config ==
    /\ CanConstruct
    /\ \E mk \in MarketLists, with_state \in BOOLEAN :
         IF with_state
         THEN LET state == DecodeState(saved)
                  rk == DecodeRanker(state.ranker)
                  a == Args(StackIds, [bytes |-> state.engine, data |-> snapshot.stacks],
                            0, 0)
              IN  IF ~state.ok
                  THEN Construct("from_config", a,
                                 [error |-> "Deserialization", stacks |-> EmptyMap],
                                 NewRanker, mk)
                  ELSE IF ~rk.ok
                  THEN Construct("from_config", a,
                                 [error |-> "Ranker", stacks |-> EmptyMap],
                                 NewRanker, mk)
                  ELSE Construct("from_config", a,
                                 from_state_engine(state.engine, StackIds),
                                 rk.ranker, mk)
         ELSE Construct("from_config", Args(StackIds, NoStored, 0, 0),
                        new_engine(StackIds), NewRanker, mk)

\* The Engine is dropped; what was serialized stays with the caller.
drop_engine ==
    /\ engine = "ready"
    /\ pc.at = "idle"
    /\ engine' = "none"
    /\ stacks' = EmptyMap
    /\ ranker' = NewRanker
    /\ markets' = <<>>
    /\ pc' = Idle("drop")
    /\ args' = NoArgs
    /\ documents' = <<>>
    /\ result' = Ok("drop", <<>>)
    /\ cycle' = NoCycle
    /\ calls' = 0
    /\ UNCHANGED <<saved, snapshot>>

(***************************************************************************)
(* The update cycle that ends a construction, set_markets and              *)
(* get_feed_documents.                                                     *)
(***************************************************************************)
\* The result of from_stack_data as it would be if it propagated the error
\* of its update cycle.
from_stack_data_result_propagated(op, errors) == UpdateResult(op, errors, <<>>)

\* from_stack_data drops the result of its update cycle.
from_stack_data_result(op, errors) == Ok(op, <<>>)

\* set_markets returns the result of its update cycle.
set_markets_result(errors) == UpdateResult("set_markets", errors, <<>>)

\* get_feed_documents returns the error of its update cycle, if any, and
\* else the documents the selection drew.
get_feed_documents_result(errors, docs) ==
    UpdateResult("get_feed_documents", errors, docs)

\* The threshold the operation in progress passes to update_stacks.
Threshold(op) == IF op \in Constructors THEN usize_MAX ELSE request_new

update_stacks ==
    /\ pc.at = "update_stacks"
    /\ \E inputs \in [DOMAIN stacks -> StackInputs(markets)],
          order \in Orders(DOMAIN stacks) :
         LET out == UpdateStacks(stacks, ranker, Threshold(pc.op), inputs, order)
             r == IF pc.op \in Constructors
                  THEN from_stack_data_result(pc.op, out.errors)
                  ELSE IF pc.op = "set_markets"
                  THEN set_markets_result(out.errors)
                  ELSE get_feed_documents_result(out.errors, documents)
         IN  /\ stacks' = out.stacks
             /\ cycle' = out.log
             /\ result' = r
             /\ engine' = IF pc.op \in Constructors /\ r.ok THEN "ready" ELSE engine
    /\ pc' = Idle(pc.op)
    /\ documents' = <<>>
    /\ UNCHANGED <<ranker, markets, saved, snapshot, args, calls>>

(***************************************************************************)
(* Operations of a constructed Engine.                                     *)
(***************************************************************************)
CanCall == engine = "ready" /\ pc.at = "idle" /\ calls < MaxCalls

\* Engine::serialize
serialize ==
    /\ CanCall
    /\ \E ranker_ok \in BOOLEAN, order \in Orders(DOMAIN stacks) :
         IF ranker_ok
         THEN /\ saved' = EncodeState(EncodeStacks(stacks, order), EncodeRanker(ranker))
              /\ snapshot' = [stacks |-> stacks, ranker |-> ranker]
              /\ result' = Ok("serialize", <<>>)
         ELSE /\ UNCHANGED <<saved, snapshot>>
              /\ result' = Err("serialize", SimpleError("Serialization"))
    /\ pc' = Idle("serialize")
    /\ args' = NoArgs
    /\ cycle' = NoCycle
    /\ calls' = calls + 1
    /\ UNCHANGED <<engine, stacks, ranker, markets, documents>>

\* set_markets without the reset of the Stack data.
set_markets_keep_data ==
    /\ CanCall
    /\ \E mk \in MarketLists :
         /\ markets' = mk
         /\ args' = [NoArgs EXCEPT !.markets = mk]
    /\ pc' = AtUpdate("set_markets")
    /\ result' = Pending
    /\ cycle' = NoCycle
    /\ calls' = calls + 1
    /\ UNCHANGED <<engine, stacks, ranker, saved, snapshot, documents>>

\* Engine::set_markets, up to its update cycle.
set_markets ==
    /\ CanCall
    /\ \E mk \in MarketLists :
         /\ markets' = mk
         /\ args' = [NoArgs EXCEPT !.markets = mk]
    /\ stacks' = [id \in DOMAIN stacks |-> DefaultStackData]
    /\ pc' = AtUpdate("set_markets")
    /\ result' = Pending
    /\ cycle' = NoCycle
    /\ calls' = calls + 1
    /\ UNCHANGED <<engine, ranker, saved, snapshot, documents>>

\* Engine::get_feed_documents, up to its update cycle.
get_feed_documents ==
    /\ CanCall
    /\ \E max_documents \in 0..MaxFeed :
         /\ args' = Args({}, NoStored, 0, max_documents)
         /\ IF DOMAIN stacks = {}
            THEN /\ result' = Err("get_feed_documents", SimpleError("Selection"))
                 /\ pc' = Idle("get_feed_documents")
                 /\ UNCHANGED <<stacks, documents>>
            ELSE \E selection \in Selections(stacks, max_documents) :
                    /\ documents' = selection.documents
                    /\ stacks' = selection.stacks
                    /\ result' = Pending
                    /\ pc' = AtUpdate("get_feed_documents")
    /\ cycle' = NoCycle
    /\ calls' = calls + 1
    /\ UNCHANGED <<engine, ranker, markets, saved, snapshot>>

\* Ranker::log_document_view_time and Ranker::log_user_reaction, when they
\* accept the event.
LogFeedback(rk) == [rk EXCEPT !.coi = @ + 1]

\* Engine::time_spent
time_spent ==
    /\ CanCall
    /\ \E log_ok \in BOOLEAN :
         IF ~log_ok
         THEN /\ result' = Err("time_spent", SimpleError("Ranker"))
              /\ cycle' = NoCycle
              /\ UNCHANGED <<stacks, ranker>>
         ELSE /\ ranker.coi < MaxCoi
              /\ \E rank_ok \in [DOMAIN stacks -> BOOLEAN], order \in Orders(DOMAIN stacks) :
                   LET rk == LogFeedback(ranker)
                       out == rank_stacks(stacks, rk, rank_ok, order)
                   IN  /\ ranker' = rk
                       /\ stacks' = out.stacks
                       /\ cycle' = RankLog(rank_ok)
                       /\ result' = UpdateResult("time_spent", out.errors, <<>>)
    /\ pc' = Idle("time_spent")
    /\ args' = NoArgs
    /\ calls' = calls + 1
    /\ UNCHANGED <<engine, markets, saved, snapshot, documents>>

\* Stack::update_relevance
update_relevance(data, reaction) ==
    IF reaction = "Positive" THEN [data EXCEPT !.alpha = @ + 1]
    ELSE [data EXCEPT !.beta = @ + 1]

\* user_reacted as it would be if it logged the reaction before it looked
\* the Stack up.
user_reacted_engine_log_first(st, rk, stack_id, reaction, log_ok, rank_ok, order) ==
    IF ~log_ok
    THEN [stacks |-> st, ranker |-> rk,
          result |-> Err("user_reacted", SimpleError("Ranker"))]
    ELSE IF stack_id \notin DOMAIN st
    THEN [stacks |-> st, ranker |-> LogFeedback(rk),
          result |-> Err("user_reacted", InvalidStackIdError(stack_id))]
    ELSE LET updated == [st EXCEPT ![stack_id] = update_relevance(@, reaction)]
             out == rank_stacks(updated, LogFeedback(rk), rank_ok, order)
         IN  [stacks |-> out.stacks, ranker |-> LogFeedback(rk),
              result |-> UpdateResult("user_reacted", out.errors, <<>>)]

\* Engine::user_reacted: the Stacks, the ranker and the Result it leaves.
user_reacted_engine(st, rk, stack_id, reaction, log_ok, rank_ok, order) ==
    IF stack_id \notin DOMAIN st
    THEN [stacks |-> st, ranker |-> rk,
          result |-> Err("user_reacted", InvalidStackIdError(stack_id))]
    ELSE LET updated == [st EXCEPT ![stack_id] = update_relevance(@, reaction)]
         IN  IF ~log_ok
             THEN [stacks |-> updated, ranker |-> rk,
                   result |-> Err("user_reacted", SimpleError("Ranker"))]
             ELSE LET out == rank_stacks(updated, LogFeedback(rk), rank_ok, order)
                  IN  [stacks |-> out.stacks, ranker |-> LogFeedback(rk),
                       result |-> UpdateResult("user_reacted", out.errors, <<>>)]

user_reacted ==
    /\ CanCall
    /\ \E stack_id \in StackIds \cup {ObsoleteId}, reaction \in {"Positive", "Negative"},
          log_ok \in BOOLEAN, rank_ok \in [DOMAIN stacks -> BOOLEAN],
          order \in Orders(DOMAIN stacks) :
         LET out == user_reacted_engine(stacks, ranker, stack_id, reaction,
                                        log_ok, rank_ok, order)
         IN  /\ \A id \in DOMAIN out.stacks :
                   out.stacks[id].alpha <= MaxRelevance /\ out.stacks[id].beta <= MaxRelevance
             /\ out.ranker.coi <= MaxCoi
             /\ stacks' = out.stacks
             /\ ranker' = out.ranker
             /\ result' = out.result
             /\ args' = Args({}, NoStored, stack_id, 0)
    /\ pc' = Idle("user_reacted")
    /\ cycle' = NoCycle
    /\ calls' = calls + 1
    /\ UNCHANGED <<engine, markets, saved, snapshot, documents>>

Next ==
    \/ new
    \/ from_state
    \/ from_config
    \/ drop_engine
    \/ update_stacks
    \/ set_markets
    \/ get_feed_documents
    \/ time_spent
    \/ user_reacted

Spec == Init /\ [][Next]_vars


(***************************************************************************)
(* Saving and restoring: an Engine is serialized, dropped, and constructed *)
(* again from a stored state.                                              *)
(***************************************************************************)
\* The data of a Stack in use: its relevance counters were raised by
\* reactions and it holds a short page of documents, or nothing yet.
SampleStackData(rk) ==
    {DefaultStackData,
     [alpha |-> MaxRelevance, beta |-> 1, documents |-> Rank(Page(SmallPage), rk)]}

InitRoundTrip ==
    /\ engine = "ready"
    /\ ranker \in Rankers
    /\ markets = <<"de">>
    /\ \E stack_ops \in StackOps : stacks \in [stack_ops -> SampleStackData(ranker)]
    /\ saved = <<>>
    /\ snapshot = NoSnapshot
    /\ pc = Idle("init")
    /\ args = NoArgs
    /\ documents = <<>>
    /\ result = Ok("init", <<>>)
    /\ cycle = NoCycle
    /\ calls = 0

\* The caller serializes one Engine and restores that state any number of
\* times.
serialize_once == saved = <<>> /\ serialize

NextRoundTrip ==
    \/ serialize_once
    \/ drop_engine
    \/ from_saved_state
    \/ from_config
    \/ update_stacks

SpecRoundTrip == InitRoundTrip /\ [][NextRoundTrip]_vars


(***************************************************************************)
(* Properties.                                                             *)
(***************************************************************************)
ErrorKinds == {"StackOpFailed", "Ranker", "Document"}
FailedStacks(log) == {id \in DOMAIN log : log[id] \in ErrorKinds}
Occurrences(seq, x) == Cardinality({i \in 1..Len(seq) : seq[i] = x})
Min(a, b) == IF a <= b THEN a ELSE b

RECURSIVE CountDocuments(_, _)
CountDocuments(st, ids) ==
    IF ids = {} THEN 0
    ELSE LET id == CHOOSE i \in ids : TRUE
         IN  Len(st[id].documents) + CountDocuments(st, ids \ {id})

\* A Stack after a successful update with the given batch of articles.
Replenished(data, id, batch, rk) ==
    [data EXCEPT !.documents =
        RetainTop(Rank(Merge(id, data.documents, FilterArticles(data.documents, batch)), rk),
                  keep_top)]

\* The step that runs the update cycle of an operation.
UpdateStep == pc.at = "update_stacks" /\ pc'.at = "idle"
UpdateStepOf(op) == UpdateStep /\ pc.op = op

\* C1: when the update cycle of get_feed_documents fails for some Stack,
\* the caller receives the documents that were drawn, together with the
\* aggregate error.
C1_DrawnDocumentsReturnedWithError ==
    [][(UpdateStepOf("get_feed_documents") /\ FailedStacks(cycle') # {})
          => (result'.error.kind = "Errors" /\ result'.documents = documents)]_vars

\* C2: in an update cycle every Stack below the threshold is attempted
\* whatever happens to the others, a Stack that succeeds holds its new
\* state, and the cycle returns Ok iff no Stack failed, else Errors with one
\* error per failed Stack.
C2_UpdateCycleIsolatesFailures ==
    [][UpdateStep =>
          /\ \A id \in DOMAIN stacks :
                /\ Len(stacks[id].documents) < Threshold(pc.op) => cycle'[id] # "skipped"
                /\ cycle'[id] = "none" =>
                      \E batch \in Batches \cup {<<>>} :
                          stacks'[id] = Replenished(stacks[id], id, batch, ranker)
          /\ pc.op \notin Constructors =>
                /\ result'.ok <=> FailedStacks(cycle') = {}
                /\ ~result'.ok =>
                      /\ result'.error.kind = "Errors"
                      /\ \A kind \in ErrorKinds :
                            Occurrences(result'.error.errors, kind)
                                = Cardinality({id \in DOMAIN cycle' : cycle'[id] = kind})]_vars

\* C2 witness: a cycle in which one Stack failed and another was updated.
C2_Witness ==
    /\ pc = Idle("get_feed_documents")
    /\ ~result.ok
    /\ \E failed, updated \in DOMAIN cycle :
          cycle[failed] \in ErrorKinds /\ cycle[updated] = "none"
                /\ stacks[updated].documents # <<>>

\* C3: get_feed_documents(max_documents) returns exactly
\* min(max_documents, number of documents held by all Stacks) documents,
\* never more than max_documents.
C3_FeedReturnsMinOfMaxAndHeld ==
    [][UpdateStepOf("get_feed_documents") =>
          /\ Len(result'.documents) <= args.max_documents
          /\ Len(result'.documents)
                = Min(args.max_documents,
                      Len(documents) + CountDocuments(stacks, DOMAIN stacks))]_vars


\* An Engine was constructed, or is being constructed, from the StackState
\* of the State that serialize() returned.
RestoredFromSaved ==
    /\ pc.op \in {"from_state", "from_config"}
    /\ pc.at = "update_stacks" \/ result.ok
    /\ DecodeState(saved).ok
    /\ args.state = DecodeState(saved).engine

\* The Stacks of the restored Engine whose pipeline was serialized.
RestoredStacks == DOMAIN stacks \cap DOMAIN snapshot.stacks

\* C4 as claimed: the Engine that from_state returns for the bytes of
\* serialize() has the same Stack data as the serialized Engine for every
\* pipeline still present, and from_config gives it the same ranker state.
C4_RoundTripIdentical ==
    (RestoredFromSaved /\ pc.at = "idle") =>
        /\ \A id \in RestoredStacks : stacks[id] = snapshot.stacks[id]
        /\ pc.op = "from_config" => ranker = snapshot.ranker

\* C4 amended: from_state constructs every pipeline still present from the
\* Stack data that was serialized, and from_config restores the ranker
\* state; the initial update cycle of the construction leaves a Stack it
\* fails to update with exactly that data, and gives a Stack it updates the
\* serialized data replenished with a fetched batch.
C4_RoundTripUpToInitialUpdate ==
    RestoredFromSaved =>
        /\ \A id \in RestoredStacks :
              IF pc.at = "update_stacks" \/ cycle[id] # "none"
              THEN stacks[id] = snapshot.stacks[id]
              ELSE \E batch \in Batches \cup {<<>>} :
                      stacks[id] = Replenished(snapshot.stacks[id], id, batch, ranker)
        /\ pc.op = "from_config" => ranker = snapshot.ranker

\* C4 witness: a restored Engine one of whose Stacks holds serialized
\* documents and relevance counters after its initial update failed, while
\* another Stack was updated.
C4_Witness ==
    /\ RestoredFromSaved
    /\ pc.at = "idle"
    /\ \E kept, updated \in RestoredStacks :
          /\ cycle[kept] \in ErrorKinds
          /\ stacks[kept].documents # <<>>
          /\ stacks[kept].alpha > 1
          /\ cycle[updated] = "none"
          /\ stacks[updated] # snapshot.stacks[updated]

\* C5: constructing an Engine with no stack operations fails with
\* NoStackOps, through new and through from_state.
C5_NoStackOpsOnEveryPath ==
    (pc.at = "idle" /\ pc.op \in {"new", "from_state"} /\ args.stack_ops = {})
        => (~result.ok /\ result.error.kind = "NoStackOps")

\* C6: a construction whose initial update cycle fails for every Stack
\* still returns the Engine, each Stack holding the data it was constructed
\* with (the default data for a fresh engine).
C6_ConstructionSurvivesUpdateFailure ==
    [][(UpdateStep /\ pc.op \in Constructors /\ FailedStacks(cycle') = DOMAIN stacks)
          => /\ result'.ok
             /\ engine' = "ready"
             /\ stacks' = stacks
             /\ pc.op = "new" => \A id \in DOMAIN stacks' : stacks'[id] = DefaultStackData]_vars

\* C6 witness: an Engine with two Stacks was returned although the initial
\* update failed for both.
C6_Witness ==
    /\ pc.at = "idle"
    /\ pc.op \in Constructors
    /\ engine = "ready"
    /\ result.ok
    /\ DOMAIN cycle = StackIds
    /\ FailedStacks(cycle) = StackIds

\* The data from_state is to construct the Stack of an operation with.
StoredOrDefault(id) ==
    IF id \in DOMAIN args.stored THEN args.stored[id] ELSE DefaultStackData

\* C7: from_state builds one Stack per given operation, from the stored
\* data of its id or else from the default data, and stored data of other
\* ids is dropped without causing an error.
C7_FromStateBuildsOneStackPerOperation ==
    pc.op = "from_state" =>
        /\ pc.at = "update_stacks" =>
              /\ DOMAIN stacks = args.stack_ops
              /\ \A id \in args.stack_ops : stacks[id] = StoredOrDefault(id)
        /\ (/\ args.stack_ops # {}
            /\ DecodeStacks(args.state).ok
            /\ \A id \in args.stack_ops : ValidStackData(StoredOrDefault(id)))
              => (pc.at = "update_stacks" \/ result.ok)

\* C7 witness: from_state built two Stacks from a state that holds the data
\* of one of them and of an obsolete pipeline.
C7_Witness ==
    /\ pc = AtUpdate("from_state")
    /\ args.stack_ops = StackIds
    /\ ObsoleteId \in DOMAIN args.stored
    /\ BreakingNewsId \in DOMAIN args.stored
    /\ PersonalizedNewsId \notin DOMAIN args.stored
    /\ stacks[BreakingNewsId].documents # <<>>
    /\ stacks[PersonalizedNewsId] = DefaultStackData

\* C8: the update cycle of get_feed_documents requests new items for a
\* Stack iff the Stack holds fewer documents than request_new, and leaves
\* every other Stack unchanged.
C8_ReplenishedIffBelowThreshold ==
    [][UpdateStepOf("get_feed_documents") =>
          \A id \in DOMAIN stacks :
              /\ cycle'[id] # "skipped" <=> Len(stacks[id].documents) < request_new
              /\ Len(stacks[id].documents) >= request_new => stacks'[id] = stacks[id]]_vars

\* The step of a user_reacted call.
UserReactedStep == pc.at = "idle" /\ pc' = Idle("user_reacted") /\ calls' = calls + 1

\* C9: when the ranker rejects the reaction, user_reacted leaves the
\* relevance bookkeeping of every Stack as it was.
C9_NoRelevanceUpdateOnRankerError ==
    [][(UserReactedStep /\ ~result'.ok /\ result'.error.kind = "Ranker")
          => \A id \in DOMAIN stacks :
                stacks'[id].alpha = stacks[id].alpha /\ stacks'[id].beta = stacks[id].beta]_vars

\* C10: user_reacted with a stack id that no Stack has returns
\* InvalidStackId with that id and changes neither Stacks nor ranker.
C10_InvalidStackIdChangesNothing ==
    [][(UserReactedStep /\ args'.stack_id \notin DOMAIN stacks)
          => /\ result' = Err("user_reacted", InvalidStackIdError(args'.stack_id))
             /\ stacks' = stacks
             /\ ranker' = ranker]_vars

\* C10 witness: an Engine with a Stack answered a reaction to a document of
\* a Stack it does not have.
C10_Witness ==
    /\ pc = Idle("user_reacted")
    /\ DOMAIN stacks # {}
    /\ args.stack_id \notin DOMAIN stacks
    /\ result.error = InvalidStackIdError(args.stack_id)


\* The step of set_markets up to its update cycle.
SetMarketsStep == pc.at = "idle" /\ pc' = AtUpdate("set_markets")

\* C11: set_markets stores the given markets, resets the data of every
\* Stack to the default before its update cycle starts, and that cycle
\* requests new items for every Stack, whether the call returns Ok or an
\* error; the markets are still the given ones when the call returns.
C11_SetMarketsResetsAndUpdatesAll ==
    [][/\ SetMarketsStep =>
             /\ markets' = args'.markets
             /\ DOMAIN stacks' = DOMAIN stacks
             /\ \A id \in DOMAIN stacks : stacks'[id] = DefaultStackData
       /\ UpdateStepOf("set_markets") =>
             /\ pc' = Idle("set_markets")
             /\ markets' = args.markets
             /\ \A id \in DOMAIN stacks :
                   /\ stacks[id] = DefaultStackData
                   /\ cycle'[id] # "skipped"]_vars

\* C11 witness: set_markets returned an error for an Engine with two
\* Stacks, after replacing the markets; one Stack was replenished from its
\* default data, the update of the other failed.
C11_Witness ==
    /\ pc = Idle("set_markets")
    /\ ~result.ok
    /\ markets = args.markets
    /\ markets # <<>>
    /\ \E failed, updated \in DOMAIN stacks :
          /\ cycle[failed] \in ErrorKinds
          /\ stacks[failed] = DefaultStackData
          /\ cycle[updated] = "none"
          /\ stacks[updated].documents # <<>>


\* The step of a time_spent call.
TimeSpentStep == pc.at = "idle" /\ pc' = Idle("time_spent") /\ calls' = calls + 1

\* As many StackOpFailed errors as there are Stacks in ids.
StackOpFailures(ids) == [i \in 1..Cardinality(ids) |-> "StackOpFailed"]

\* C12: once the ranker has accepted a time_spent event every Stack whose
\* rank succeeds is re-ranked with the updated ranker, whichever Stacks
\* fail, and the call returns Errors with one StackOpFailed per failed
\* Stack, or Ok when none failed.
C12_TimeSpentReranksEveryStack ==
    [][(TimeSpentStep /\ result'.error.kind # "Ranker") =>
          /\ ranker' = LogFeedback(ranker)
          /\ DOMAIN cycle' = DOMAIN stacks
          /\ \A id \in DOMAIN stacks :
                cycle'[id] = "ranked" =>
                    stacks'[id] = [stacks[id] EXCEPT !.documents = Rank(@, ranker')]
          /\ result' = IF FailedStacks(cycle') = {}
                       THEN Ok("time_spent", <<>>)
                       ELSE Err("time_spent",
                                ErrorsError(StackOpFailures(FailedStacks(cycle'))))]_vars

\* C12 witness: time_spent returned Errors after the rank of one Stack
\* failed, and another Stack holds its documents in the new order.
C12_Witness ==
    /\ pc = Idle("time_spent")
    /\ ~result.ok
    /\ result.error.kind = "Errors"
    /\ \E failed, ranked \in DOMAIN cycle :
          /\ cycle[failed] = "StackOpFailed"
          /\ cycle[ranked] = "ranked"
          /\ Len(stacks[ranked].documents) > 1
          /\ stacks[ranked].documents = Rank(stacks[ranked].documents, ranker)
          /\ stacks[ranked].documents # Rank(stacks[ranked].documents, NewRanker)


(***************************************************************************)
(* BreakingNews::new_items: one headlines request is spawned per market    *)
(* and the join handles are awaited in the order the requests complete.    *)
(***************************************************************************)
\* The most markets of one call.
MaxMarkets == 3

\* The errors of the provider's client.
RequestErrors == {"Timeout", "StatusCode"}

\* What awaiting the handle of one request yields: the task did not run to
\* its end, or the request returned a batch of articles or an error.
JoinError == [kind |-> "JoinError", batch |-> <<>>, error |-> "none"]
RequestOk(batch) == [kind |-> "Ok", batch |-> batch, error |-> "none"]
RequestErr(error) == [kind |-> "Err", batch |-> <<>>, error |-> error]
Handles ==
    {JoinError} \cup {RequestOk(batch) : batch \in {<<>>, <<1>>, <<2, 3>>}}
                \cup {RequestErr(error) : error \in RequestErrors}

\* A loop that returns at the first request that failed.
RECURSIVE CollectHandlesUntilError(_, _)
CollectHandlesUntilError(handles, acc) ==
    IF handles = <<>> THEN acc
    ELSE LET handle == Head(handles)
         IN  IF handle.kind = "Err"
             THEN [acc EXCEPT !.errors = Append(@, handle.error)]
             ELSE CollectHandlesUntilError(Tail(handles),
                      IF handle.kind = "Ok"
                      THEN [acc EXCEPT !.articles = @ \o handle.batch]
                      ELSE acc)

\* The while loop over the completed requests.
RECURSIVE CollectHandles(_, _)
CollectHandles(handles, acc) ==
    IF handles = <<>> THEN acc
    ELSE LET handle == Head(handles)
         IN  CollectHandles(Tail(handles),
                 IF handle.kind = "Ok"
                 THEN [acc EXCEPT !.articles = @ \o handle.batch]
                 ELSE IF handle.kind = "Err"
                 THEN [acc EXCEPT !.errors = Append(@, handle.error)]
                 ELSE acc)

NewItems(configured, handles) ==
    IF ~configured THEN Ok("new_items", <<>>)
    ELSE LET got == CollectHandles(handles, [articles |-> <<>>, errors |-> <<>>])
         IN  IF got.articles = <<>> /\ got.errors # <<>>
             THEN Err("new_items", SimpleError(got.errors[Len(got.errors)]))
             ELSE Ok("new_items", got.articles)

\* The handles of at most n requests, in every order of completion.
RECURSIVE HandleSeqs(_)
HandleSeqs(n) ==
    IF n = 0 THEN {<<>>}
    ELSE LET shorter == HandleSeqs(n - 1)
         IN  shorter \cup {Append(h, x) : h \in shorter, x \in Handles}

\* BreakingNews::new_items
new_items ==
    /\ \E configured \in BOOLEAN, handles \in HandleSeqs(MaxMarkets) :
         /\ ~configured => handles = <<>>
         /\ args' = [configured |-> configured, handles |-> handles]
         /\ result' = NewItems(configured, handles)
    /\ pc' = Idle("new_items")
    /\ UNCHANGED <<engine, stacks, ranker, markets, saved, snapshot, documents,
                   cycle, calls>>

NextNewItems == new_items

SpecNewItems == Init /\ [][NextNewItems]_vars

\* new_items has returned for configured markets.
NewItemsReturned == pc = Idle("new_items") /\ args.configured

\* C13: new_items returns Ok with the articles of all the successful
\* requests whenever at least one request succeeded, whatever the other
\* requests did and however many articles the successful ones returned.
C13_OkWheneverOneRequestSucceeds ==
    (NewItemsReturned /\ \E i \in 1..Len(args.handles) : args.handles[i].kind = "Ok")
        => result = Ok("new_items",
                       CollectHandles(args.handles,
                                      [articles |-> <<>>, errors |-> <<>>]).articles)

\* The errors of the failed requests, in the order they were collected.
CollectedErrors(handles) ==
    CollectHandles(handles, [articles |-> <<>>, errors |-> <<>>]).errors

\* C14: when every request of new_items fails, the error returned is the
\* first failure that was collected.
C14_FirstFailureSurfaced ==
    (/\ NewItemsReturned
     /\ \A i \in 1..Len(args.handles) : args.handles[i].kind # "Ok"
     /\ CollectedErrors(args.handles) # <<>>)
        => result = Err("new_items", SimpleError(CollectedErrors(args.handles)[1]))


(***************************************************************************)
(* The article filters.  An article is known by its title and link;        *)
(* its excerpt stands for the fields only MalformedFilter reads.           *)
(***************************************************************************)
\* The most articles of one CommonFilter::apply call.
MaxArticles == 3

\* Strings in their lexicographic order.
Alphabet == <<"a", "b", "c", "u", "v">>
StrLess(x, y) ==
    \E i, j \in 1..Len(Alphabet) : Alphabet[i] = x /\ Alphabet[j] = y /\ i < j

Titles == {"a", "b", "c"}
Links == {"u", "v"}
Articles == [title : Titles, link : Links, excerpt : {"", "x"}]

\* A document of the history or of the stack, as the filters read it.
Doc(title, url) == [title |-> title, url |-> url]

\* UniqueArticle: equal when link or title are equal, else ordered by
\* (title, link).
UniqueEq(x, y) == x.link = y.link \/ x.title = y.title
UniqueLess(x, y) ==
    /\ ~UniqueEq(x, y)
    /\ StrLess(x.title, y.title) \/ (x.title = y.title /\ StrLess(x.link, y.link))

\* BTreeSet::insert on a set of one node: the keys are searched from the
\* left; an equal key ends the search (the set keeps the key it has), a
\* greater key is the place to insert.
RECURSIVE SearchNode(_, _, _)
SearchNode(keys, key, idx) ==
    IF idx > Len(keys) THEN [found |-> FALSE, idx |-> idx]
    ELSE IF UniqueEq(key, keys[idx]) THEN [found |-> TRUE, idx |-> idx]
    ELSE IF UniqueLess(key, keys[idx]) THEN [found |-> FALSE, idx |-> idx]
    ELSE SearchNode(keys, key, idx + 1)

BTreeInsert(keys, key) ==
    LET at == SearchNode(keys, key, 1)
    IN  IF at.found THEN keys
        ELSE SubSeq(keys, 1, at.idx - 1) \o <<key>> \o SubSeq(keys, at.idx, Len(keys))

RECURSIVE CollectByInsert(_, _)
CollectByInsert(articles, keys) ==
    IF articles = <<>> THEN keys
    ELSE CollectByInsert(Tail(articles), BTreeInsert(keys, Head(articles)))

\* BTreeSet::from_iter that sorts the keys (the stable insertion sort of a
\* short slice, from its end) and builds the set from the sorted keys,
\* keeping the last of adjacent equal keys.
RECURSIVE InsertHead(_, _)
InsertHead(key, sorted) ==
    IF sorted # <<>> /\ UniqueLess(Head(sorted), key)
    THEN <<Head(sorted)>> \o InsertHead(key, Tail(sorted))
    ELSE <<key>> \o sorted

RECURSIVE SortKeys(_)
SortKeys(keys) ==
    IF keys = <<>> THEN <<>> ELSE InsertHead(Head(keys), SortKeys(Tail(keys)))

RECURSIVE DedupSorted(_)
DedupSorted(keys) ==
    IF Len(keys) <= 1 THEN keys
    ELSE IF UniqueEq(keys[1], keys[2]) THEN DedupSorted(Tail(keys))
    ELSE <<keys[1]>> \o DedupSorted(Tail(keys))

\* The two ways the standard library has collected an iterator into a
\* BTreeSet.
BTreeSetBuilds == {"insert", "bulk_build"}
Collect(build, articles) ==
    IF build = "insert" THEN CollectByInsert(articles, <<>>)
    ELSE DedupSorted(SortKeys(articles))

\* DuplicateFilter::apply that compares urls only.
DuplicateFilterUrlsOnly(build, history, stack, articles) ==
    LET urls == {history[i].url : i \in 1..Len(history)}
                    \cup {stack[i].url : i \in 1..Len(stack)}
    IN  SelectSeq(Collect(build, articles), LAMBDA article : article.link \notin urls)

\* DuplicateFilter::apply
DuplicateFilter(build, history, stack, articles) ==
    LET urls == {history[i].url : i \in 1..Len(history)}
                    \cup {stack[i].url : i \in 1..Len(stack)}
        titles == {history[i].title : i \in 1..Len(history)}
                    \cup {stack[i].title : i \in 1..Len(stack)}
    IN  SelectSeq(Collect(build, articles),
                  LAMBDA article : ~(article.link \in urls \/ article.title \in titles))

\* MalformedFilter::is_valid
is_valid(article) == article.title # "" /\ article.excerpt # ""

\* A MalformedFilter::apply that completes the malformed articles.
MalformedFilterRepairing(articles) ==
    [i \in 1..Len(articles) |->
        IF is_valid(articles[i]) THEN articles[i] ELSE [articles[i] EXCEPT !.excerpt = "x"]]

\* MalformedFilter::apply
MalformedFilter(articles) == SelectSeq(articles, is_valid)

\* CommonFilter::apply
CommonFilter(build, history, stack, articles) ==
    MalformedFilter(DuplicateFilter(build, history, stack, articles))

\* The lists of at most n articles.
RECURSIVE ArticleSeqs(_)
ArticleSeqs(n) ==
    IF n = 0 THEN {<<>>}
    ELSE LET shorter == ArticleSeqs(n - 1)
         IN  shorter \cup {Append(l, a) : l \in shorter, a \in Articles}

Histories == {<<>>, <<Doc("a", "u")>>}
StackDocuments == {<<>>, <<Doc("b", "v")>>}

\* One call of CommonFilter::apply; documents holds what its first stage
\* returned.
apply ==
    /\ pc = Idle("init")
    /\ \E build \in BTreeSetBuilds, history \in Histories, stack \in StackDocuments,
          articles \in ArticleSeqs(MaxArticles) :
         /\ args' = [build |-> build, history |-> history, stack |-> stack,
                     articles |-> articles]
         /\ documents' = DuplicateFilter(build, history, stack, articles)
         /\ result' = Ok("apply", CommonFilter(build, history, stack, articles))
    /\ pc' = Idle("apply")
    /\ UNCHANGED <<engine, stacks, ranker, markets, saved, snapshot, cycle, calls>>

NextFilter == apply

SpecFilter == Init /\ [][NextFilter]_vars

\* CommonFilter::apply has returned.
Applied == pc = Idle("apply")

\* x occurs in out at most as often as in in, for every x.
SubCollection(out, in) ==
    \A i \in 1..Len(out) : Occurrences(out, out[i]) <= Occurrences(in, out[i])
SameCollection(x, y) == SubCollection(x, y) /\ SubCollection(y, x)

\* C15: CommonFilter::apply returns the articles that removing the
\* malformed articles first and deduplicating the rest returns.
C15_MalformedBeforeDuplicate ==
    Applied =>
        SameCollection(result.documents,
                       DuplicateFilter(args.build, args.history, args.stack,
                                       MalformedFilter(args.articles)))

\* The documents of the history and of the stack of the call.
KnownDocuments ==
    {args.history[i] : i \in 1..Len(args.history)}
        \cup {args.stack[i] : i \in 1..Len(args.stack)}

\* C16: no article CommonFilter::apply returns has the url or the title of
\* a document of the history or of the stack.
C16_NoneKnownToHistoryOrStack ==
    Applied =>
        \A i \in 1..Len(result.documents) : \A doc \in KnownDocuments :
            /\ result.documents[i].link # doc.url
            /\ result.documents[i].title # doc.title

\* C16 witness: the call was given a well-formed article with the url of
\* the history document and one with its title, and returned another
\* article.
C16_Witness ==
    /\ Applied
    /\ args.history # <<>>
    /\ result.documents # <<>>
    /\ \E i, j \in 1..Len(args.articles) :
          /\ is_valid(args.articles[i]) /\ is_valid(args.articles[j])
          /\ args.articles[i].link = args.history[1].url
          /\ args.articles[i].title # args.history[1].title
          /\ args.articles[j].title = args.history[1].title
          /\ args.articles[j].link # args.history[1].url

\* C17: no two articles CommonFilter::apply returns share a title or a
\* link, and the call returns an article whenever no article given is
\* malformed or known to history or stack.
C17_ReturnedArticlesPairwiseDistinct ==
    Applied =>
        /\ \A i, j \in 1..Len(result.documents) :
              i # j => ~UniqueEq(result.documents[i], result.documents[j])
        /\ (/\ args.articles # <<>>
            /\ \A i \in 1..Len(args.articles) :
                  /\ is_valid(args.articles[i])
                  /\ \A doc \in KnownDocuments :
                        args.articles[i].link # doc.url /\ args.articles[i].title # doc.title)
              => result.documents # <<>>

\* C19: what each filter returns is a sub-collection of what it was given,
\* so CommonFilter::apply returns no more articles than it was given.
C19_FiltersOnlyRemove ==
    Applied =>
        /\ SubCollection(documents, args.articles)
        /\ SubCollection(result.documents, documents)
        /\ SubCollection(result.documents, args.articles)
        /\ Len(result.documents) <= Len(args.articles)

\* C19 witness: the call was given a duplicate and a malformed article and
\* returned fewer articles than either stage was given.
C19_Witness ==
    /\ Applied
    /\ Len(documents) < Len(args.articles)
    /\ Len(result.documents) < Len(documents)
    /\ result.documents # <<>>


(***************************************************************************)
(* Update cycles of the BreakingNews Stack with the article filters: the   *)
(* fetched articles are filtered against history and Stack, made documents *)
(* and appended; ranking reorders the documents and is left out.           *)
(***************************************************************************)
\* The most articles one new_items call returns in these cycles.
MaxBatch == 4

\* The most update cycles of one behaviour.
MaxCycles == 2

\* The lists of at most n well-formed articles.
RECURSIVE WellFormedSeqs(_)
WellFormedSeqs(n) ==
    IF n = 0 THEN {<<>>}
    ELSE LET shorter == WellFormedSeqs(n - 1)
         IN  shorter \cup {Append(l, a) : l \in shorter, a \in {x \in Articles : is_valid(x)}}

\* document_from_article: the title and url of the document.
document_from_article(article) == Doc(article.title, article.link)

InitBreakingNews ==
    /\ engine = "ready"
    /\ stacks = [id \in {BreakingNewsId} |-> DefaultStackData]
    /\ ranker = NewRanker
    /\ markets = <<"de">>
    /\ saved = <<>>
    /\ snapshot = NoSnapshot
    /\ pc = Idle("init")
    /\ args = NoArgs
    /\ documents = <<>>
    /\ result = Ok("init", <<>>)
    /\ cycle = NoCycle
    /\ calls = 0

\* One update cycle of the BreakingNews Stack; args counts the articles
\* fetched, documents holds the documents appended.
update_breaking_news ==
    /\ pc.at = "idle"
    /\ calls < MaxCycles
    /\ NeedsNewItems(stacks[BreakingNewsId], request_new)
    /\ \E build \in BTreeSetBuilds, history \in Histories, batch \in WellFormedSeqs(MaxBatch) :
         LET stack == stacks[BreakingNewsId].documents
             articles == CommonFilter(build, history, stack, batch)
             docs == [i \in 1..Len(articles) |-> document_from_article(articles[i])]
         IN  /\ stacks' = [stacks EXCEPT ![BreakingNewsId].documents =
                                RetainTop(BreakingNewsMerge(stack, docs), keep_top)]
             /\ documents' = docs
             /\ args' = [fetched |-> Len(batch)]
    /\ pc' = Idle("update_stacks")
    /\ result' = Ok("update_stacks", <<>>)
    /\ calls' = calls + 1
    /\ UNCHANGED <<engine, ranker, markets, saved, snapshot, cycle>>

NextBreakingNews == update_breaking_news

SpecBreakingNews == InitBreakingNews /\ [][NextBreakingNews]_vars

\* C18: the BreakingNews Stack never holds two documents with the same
\* title and url.
C18_NoTwoDocumentsWithSameTitleAndUrl ==
    pc.op \in {"init", "update_stacks"} =>
        LET stack == stacks[BreakingNewsId].documents
        IN  \A i, j \in 1..Len(stack) :
                (stack[i].title = stack[j].title /\ stack[i].url = stack[j].url) => i = j


(***************************************************************************)
(* Semantic clustering: the dendrogram of the documents' pairwise          *)
(* dissimilarities, and cut_tree.  Observations are numbered from 0; a     *)
(* dissimilarity is a fraction num / den, so that the mean of the average  *)
(* linkage is exact.                                                       *)
(***************************************************************************)
\* The most documents clustered, and their largest dissimilarity.
MaxObservations == 3
MaxDissimilarity == 2

Rational(num, den) == [num |-> num, den |-> den]
RatLess(x, y) == x.num * y.den < y.num * x.den

\* The condensed matrices: a dissimilarity for every pair i < j.
ObservationPairs(n) == {pair \in (0..(n - 1)) \X (0..(n - 1)) : pair[1] < pair[2]}
CondensedMatrices(n) == [ObservationPairs(n) -> 0..MaxDissimilarity]
Dissimilarity(matrix, i, j) == IF i < j THEN matrix[<<i, j>>] ELSE matrix[<<j, i>>]

RECURSIVE SumOver(_, _)
SumOver(matrix, pairs) ==
    IF pairs = {} THEN 0
    ELSE LET pair == CHOOSE x \in pairs : TRUE
         IN  Dissimilarity(matrix, pair[1], pair[2]) + SumOver(matrix, pairs \ {pair})

\* The dissimilarity of two clusters: the least dissimilarity of their
\* members (Method::Single) or the mean (Method::Average).
Methods == {"Single", "Average"}
ClusterDissimilarity(matrix, method, a, b) ==
    IF method = "Single"
    THEN Rational(CHOOSE d \in {Dissimilarity(matrix, i, j) : i \in a, j \in b} :
                      \A i \in a, j \in b : Dissimilarity(matrix, i, j) >= d,
                  1)
    ELSE Rational(SumOver(matrix, a \X b), Cardinality(a) * Cardinality(b))

\* kodama::linkage: the two closest clusters are merged into a cluster with
\* the next id, until one cluster is left; each merge is a step of the
\* dendrogram.
RECURSIVE LinkageSteps(_, _, _, _)
LinkageSteps(matrix, method, clusters, id) ==
    IF Cardinality(DOMAIN clusters) <= 1 THEN <<>>
    ELSE LET candidates == {pair \in (DOMAIN clusters) \X (DOMAIN clusters) : pair[1] < pair[2]}
             between(pair) ==
                 ClusterDissimilarity(matrix, method, clusters[pair[1]], clusters[pair[2]])
             closest == CHOOSE pair \in candidates :
                            \A other \in candidates : ~RatLess(between(other), between(pair))
             merged == [k \in (DOMAIN clusters \ {closest[1], closest[2]}) \cup {id} |->
                           IF k = id THEN clusters[closest[1]] \cup clusters[closest[2]]
                           ELSE clusters[k]]
         IN  <<[cluster1 |-> closest[1], cluster2 |-> closest[2],
                dissimilarity |-> between(closest),
                size |-> Cardinality(merged[id])]>>
                 \o LinkageSteps(matrix, method, merged, id + 1)

linkage(matrix, observations, method) ==
    [observations |-> observations,
     steps |-> LinkageSteps(matrix, method,
                            [x \in 0..(observations - 1) |-> {x}], observations)]

\* assign_labels: the clusters are labelled from 0 in the order of their
\* ids; labels[sample + 1] is the label of the sample.
assign_labels(clusters, len) ==
    [sample \in 1..len |->
        LET own == CHOOSE k \in DOMAIN clusters : Contains(clusters[k], sample - 1)
        IN  Cardinality({k \in DOMAIN clusters : k < own})]

\* The fold of a cut_tree that also merges the steps at the threshold.
RECURSIVE MergeStepsInclusive(_, _, _, _)
MergeStepsInclusive(steps, max_dissimilarity, id, clusters) ==
    IF steps = <<>> \/ RatLess(Rational(max_dissimilarity, 1), Head(steps).dissimilarity)
    THEN clusters
    ELSE LET step == Head(steps)
         IN  MergeStepsInclusive(Tail(steps), max_dissimilarity, id + 1,
                 [k \in (DOMAIN clusters \ {step.cluster1, step.cluster2}) \cup {id} |->
                     IF k = id THEN clusters[step.cluster1] \o clusters[step.cluster2]
                     ELSE clusters[k]])

\* The fold of cut_tree over the steps under the threshold.
RECURSIVE MergeSteps(_, _, _, _)
MergeSteps(steps, max_dissimilarity, id, clusters) ==
    IF steps = <<>> \/ ~RatLess(Head(steps).dissimilarity, Rational(max_dissimilarity, 1))
    THEN clusters
    ELSE LET step == Head(steps)
         IN  MergeSteps(Tail(steps), max_dissimilarity, id + 1,
                 [k \in (DOMAIN clusters \ {step.cluster1, step.cluster2}) \cup {id} |->
                     IF k = id THEN clusters[step.cluster1] \o clusters[step.cluster2]
                     ELSE clusters[k]])

cut_tree(dendrogram, max_dissimilarity) ==
    assign_labels(MergeSteps(dendrogram.steps, max_dissimilarity, dendrogram.observations,
                             [x \in 0..(dendrogram.observations - 1) |-> <<x>>]),
                  dendrogram.observations)

\* One clustering: the documents' dissimilarities are linked and the
\* dendrogram is cut.
cut_dendrogram ==
    /\ pc = Idle("init")
    /\ \E observations \in 1..MaxObservations, method \in Methods,
          max_dissimilarity \in 0..(MaxDissimilarity + 1) :
         \E matrix \in CondensedMatrices(observations) :
            /\ args' = [observations |-> observations, matrix |-> matrix,
                        method |-> method, max_dissimilarity |-> max_dissimilarity]
            /\ result' = Ok("cut_tree",
                            cut_tree(linkage(matrix, observations, method), max_dissimilarity))
    /\ pc' = Idle("cut_tree")
    /\ UNCHANGED <<engine, stacks, ranker, markets, saved, snapshot, documents,
                   cycle, calls>>

NextCutTree == cut_dendrogram

SpecCutTree == Init /\ [][NextCutTree]_vars

\* C20: a cutoff at least as large as the largest pairwise dissimilarity
\* of the documents gives every document the label 0.
C20_CutoffAtLargestGivesOneCluster ==
    (/\ pc = Idle("cut_tree")
     /\ \A pair \in ObservationPairs(args.observations) :
           args.matrix[pair] <= args.max_dissimilarity)
        => \A sample \in 1..args.observations : result.documents[sample] = 0


(***************************************************************************)
(* The semantic filter: the combined similarities of the documents are     *)
(* normalized to distances, linked, cut by the criterion, and one document *)
(* is kept per cluster.                                                    *)
(***************************************************************************)
\* A find_n_clusters that stops one merge early.
RECURSIVE FindStepsEarly(_, _, _, _)
FindStepsEarly(steps, n_clusters, id, clusters) ==
    IF steps = <<>> \/ Cardinality(DOMAIN clusters) <= n_clusters + 1 THEN clusters
    ELSE LET step == Head(steps)
         IN  FindStepsEarly(Tail(steps), n_clusters, id + 1,
                 [k \in (DOMAIN clusters \ {step.cluster1, step.cluster2}) \cup {id} |->
                     IF k = id THEN clusters[step.cluster1] \o clusters[step.cluster2]
                     ELSE clusters[k]])

\* The loop of find_n_clusters: merge until n_clusters are left.
RECURSIVE FindSteps(_, _, _, _)
FindSteps(steps, n_clusters, id, clusters) ==
    IF steps = <<>> \/ Cardinality(DOMAIN clusters) <= n_clusters THEN clusters
    ELSE LET step == Head(steps)
         IN  FindSteps(Tail(steps), n_clusters, id + 1,
                 [k \in (DOMAIN clusters \ {step.cluster1, step.cluster2}) \cup {id} |->
                     IF k = id THEN clusters[step.cluster1] \o clusters[step.cluster2]
                     ELSE clusters[k]])

find_n_clusters(dendrogram, n_clusters) ==
    assign_labels(FindSteps(dendrogram.steps, n_clusters, dendrogram.observations,
                            [x \in 0..(dendrogram.observations - 1) |-> <<x>>]),
                  dendrogram.observations)

\* The least and the greatest of a non-empty set of numbers.
MinOf(S) == CHOOSE x \in S : \A y \in S : x <= y
MaxOf(S) == CHOOSE x \in S : \A y \in S : y <= x

\* A condensed_normalized_distance without the test of the denominator.
condensed_normalized_distance_unguarded(combined) ==
    LET values == {combined[pair] : pair \in DOMAIN combined}
        min == IF values = {} THEN 0 ELSE MinOf(values)
        max == IF values = {} THEN 0 ELSE MaxOf(values)
        diff == max - min
    IN  [pair \in DOMAIN combined |-> Rational(diff - (combined[pair] - min), diff)]

\* condensed_normalized_distance: 1 - (value - min) / diff for every pair,
\* as the fraction (diff - (value - min)) / diff.
condensed_normalized_distance(combined) ==
    LET values == {combined[pair] : pair \in DOMAIN combined}
        min == IF values = {} THEN 0 ELSE MinOf(values)
        max == IF values = {} THEN 0 ELSE MaxOf(values)
        diff == max - min
    IN  IF diff > 0
        THEN [pair \in DOMAIN combined |-> Rational(diff - (combined[pair] - min), diff)]
        ELSE [pair \in DOMAIN combined |-> Rational(0, 1)]

\* The criterion: a cutoff in the unit interval, in steps of
\* 1 / CutoffUnits, or a number of clusters.
CutoffUnits == 2
Criteria ==
    [kind : {"MaxDissimilarity"}, value : 0..CutoffUnits]
        \cup [kind : {"MaxClusters"}, value : 0..(MaxObservations + 1)]

\* The documents of a call, in their order: position and source weight.
DocumentLists(n) == {[i \in 1..n |-> [id |-> i, weight |-> weights[i]]] :
                         weights \in [1..n -> 0..1]}

\* The combined similarities of the pairs of documents of a call.
CombinedSimilarities(n) == [ObservationPairs(n) -> 0..1]

\* source_weight
source_weight(document) == document.weight

\* The labels filter_semantically computes.  All the distances have one
\* denominator, den; the dendrogram is built from the distances in units
\* of 1 / (CutoffUnits * den), and the cutoff is in the same units.
SemanticLabels(n, combined, criterion) ==
    LET distance == condensed_normalized_distance(combined)
        dens == {distance[pair].den : pair \in DOMAIN distance}
        den == IF dens = {} THEN 1 ELSE MaxOf(dens)
        normalized_distance == [pair \in DOMAIN distance |-> distance[pair].num * CutoffUnits]
        dendrogram == linkage(normalized_distance, n, "Average")
    IN  IF criterion.kind = "MaxDissimilarity"
        THEN cut_tree(dendrogram, criterion.value * den)
        ELSE find_n_clusters(dendrogram, criterion.value)

\* GroupingMap::max_by_key for one label: the heaviest document of the
\* group, the last one of the equally heavy.
MaxByKey(labels, docs, label) ==
    LET group == {i \in 1..Len(docs) : labels[i] = label}
        kept == CHOOSE i \in group :
                    \A j \in group :
                        \/ source_weight(docs[j]) < source_weight(docs[i])
                        \/ (source_weight(docs[j]) = source_weight(docs[i]) /\ j <= i)
    IN  docs[kept]

\* into_grouping_map().max_by_key(..).into_values().collect(): one document
\* per label, in the order the HashMap is iterated.
GroupValues(labels, docs, order) ==
    [i \in 1..Len(order) |-> MaxByKey(labels, docs, order[i])]

\* The results filter_semantically can return for the documents.
filter_semantically(docs, combined, criterion) ==
    IF Len(docs) < 2 THEN {docs}
    ELSE LET labels == SemanticLabels(Len(docs), combined, criterion)
         IN  {GroupValues(labels, docs, order) :
                  order \in Orders({labels[i] : i \in 1..Len(labels)})}

\* condensed_normalized_distance is called with the combined similarities.
normalize_distance ==
    /\ pc = Idle("init")
    /\ \E n \in 0..MaxObservations : \E combined \in CondensedMatrices(n) :
          /\ args' = [observations |-> n, combined |-> combined]
          /\ result' = Ok("condensed_normalized_distance",
                          condensed_normalized_distance(combined))
    /\ pc' = Idle("condensed_normalized_distance")
    /\ UNCHANGED <<engine, stacks, ranker, markets, saved, snapshot, documents, cycle, calls>>

\* find_n_clusters is called with the dendrogram of the observations.
find_clusters ==
    /\ pc = Idle("init")
    /\ \E n \in 0..MaxObservations : \E matrix \in CondensedMatrices(n) :
       \E method \in Methods : \E n_clusters \in 0..(MaxObservations + 1) :
          /\ args' = [observations |-> n, matrix |-> matrix, method |-> method,
                      n_clusters |-> n_clusters]
          /\ result' = Ok("find_n_clusters",
                          find_n_clusters(linkage(matrix, n, method), n_clusters))
    /\ pc' = Idle("find_n_clusters")
    /\ UNCHANGED <<engine, stacks, ranker, markets, saved, snapshot, documents, cycle, calls>>

\* filter_semantically is called with the documents; the labels of the
\* documents are kept in documents, the returned documents in result.
filter_documents ==
    /\ pc = Idle("init")
    /\ \E n \in 0..MaxObservations : \E docs \in DocumentLists(n) :
       \E combined \in CombinedSimilarities(n) : \E criterion \in Criteria :
          /\ args' = [documents |-> docs, combined |-> combined, criterion |-> criterion]
          /\ documents' = IF n < 2 THEN <<>> ELSE SemanticLabels(n, combined, criterion)
          /\ \E filtered \in filter_semantically(docs, combined, criterion) :
                result' = Ok("filter_semantically", filtered)
    /\ pc' = Idle("filter_semantically")
    /\ UNCHANGED <<engine, stacks, ranker, markets, saved, snapshot, cycle, calls>>

NextSemantic == normalize_distance \/ find_clusters \/ filter_documents
SpecSemantic == Init /\ [][NextSemantic]_vars

Filtered == pc = Idle("filter_semantically")
\* The number of clusters of a labelling.
ClusterCount(labels) == Cardinality({labels[i] : i \in 1..Len(labels)})

C22_ExactlyTheTargetNumberOfClusters ==
    pc = Idle("find_n_clusters") =>
        /\ Len(result.documents) = args.observations
        /\ ClusterCount(result.documents)
               = Min(args.observations,
                     IF args.n_clusters < 1 THEN 1 ELSE args.n_clusters)
        /\ args.n_clusters = 0 =>
               result.documents
                   = find_n_clusters(linkage(args.matrix, args.observations, args.method), 1)

C22_Witness ==
    /\ pc = Idle("find_n_clusters")
    /\ args.observations = 3
    /\ args.n_clusters = 2
    /\ ClusterCount(result.documents) = 2

\* The heaviest document of a cluster, the first one of the equally heavy.
FirstHeaviest(labels, docs, label) ==
    LET group == {i \in 1..Len(docs) : labels[i] = label}
        kept == CHOOSE i \in group :
                    \A j \in group :
                        \/ source_weight(docs[j]) < source_weight(docs[i])
                        \/ (source_weight(docs[j]) = source_weight(docs[i]) /\ i <= j)
    IN  docs[kept]

\* C23: filter_semantically keeps exactly one document of every cluster,
\* the one with the highest source weight, and of the documents of a
\* cluster with the same highest weight the one that is first in the input.
C23_OnePerClusterHeaviestFirst ==
    (Filtered /\ Len(args.documents) >= 2) =>
        \A label \in {documents[i] : i \in 1..Len(documents)} :
            /\ Cardinality({i \in 1..Len(result.documents) :
                               documents[result.documents[i].id] = label}) = 1
            /\ Contains(result.documents, FirstHeaviest(documents, args.documents, label))

\* C24: condensed_normalized_distance never divides by zero: when the
\* combined values are all equal, or there are none, every distance is 0;
\* otherwise every distance is in [0, 1], 0 for the pairs of the largest
\* combined value and 1 for the pairs of the smallest.
C24_NormalizedWithoutDivisionByZero ==
    pc = Idle("condensed_normalized_distance") =>
        LET combined == args.combined
            distance == result.documents
            values == {combined[pair] : pair \in DOMAIN combined}
        IN  /\ DOMAIN distance = DOMAIN combined
            /\ \A pair \in DOMAIN distance :
                  /\ distance[pair].den > 0
                  /\ 0 <= distance[pair].num
                  /\ distance[pair].num <= distance[pair].den
            /\ Cardinality(values) <= 1 =>
                   \A pair \in DOMAIN distance : distance[pair].num = 0
            /\ Cardinality(values) > 1 =>
                   \A pair \in DOMAIN distance :
                       /\ combined[pair] = MaxOf(values) => distance[pair].num = 0
                       /\ combined[pair] = MinOf(values) =>
                              distance[pair].num = distance[pair].den

C24_Witness ==
    /\ pc = Idle("condensed_normalized_distance")
    /\ args.observations = 3
    /\ args.combined[<<0, 1>>] = 0
    /\ args.combined[<<0, 2>>] = 1
    /\ args.combined[<<1, 2>>] = 2
    /\ result.documents[<<0, 1>>] = Rational(2, 2)
    /\ result.documents[<<0, 2>>] = Rational(1, 2)
    /\ result.documents[<<1, 2>>] = Rational(0, 2)

\* C30: filter_semantically returns the documents it keeps in the relative
\* order they have in the input, and the input list itself when no two
\* documents are in one cluster.
C30_KeptInInputOrder ==
    Filtered =>
        /\ \A i, j \in 1..Len(result.documents) :
               i < j => result.documents[i].id < result.documents[j].id
        /\ (\A i, j \in 1..Len(documents) : documents[i] = documents[j] => i = j) =>
               result.documents = args.documents

(***************************************************************************)
(* The weights of the positive CoIs of the personalization route.          *)
(***************************************************************************)
MaxPositiveCois == 3

\* The positive CoIs of a user: the views that make their relevance and the
\* age of the last view.  The route returns early without positive CoIs.
PositiveCois == [views : 0..MaxRelevance, age : 0..1]

\* compute_coi_relevances: the relevance of a CoI grows with its views and
\* is 0 when the age of its last view has reached the horizon.
compute_coi_relevances(cois, horizon) ==
    [i \in 1..Len(cois) |-> IF cois[i].age >= horizon THEN 0 ELSE cois[i].views]

\* 1 - exp(-3 * rel) in units of 1 / 20^MaxRelevance, with 1 / 20 for exp(-3).
RECURSIVE Power(_, _)
Power(base, exponent) == IF exponent = 0 THEN 1 ELSE base * Power(base, exponent - 1)
Transformed(rel) == Power(20, MaxRelevance) - Power(20, MaxRelevance - rel)

RECURSIVE SumSeq(_)
SumSeq(seq) == IF seq = <<>> THEN 0 ELSE Head(seq) + SumSeq(Tail(seq))

\* The f32 quotient rel / rel_sum.
NaN == [nan |-> TRUE]
Quotient(rel, rel_sum) ==
    IF rel_sum # 0 THEN Rational(rel, rel_sum)
    ELSE IF rel = 0 THEN NaN ELSE [inf |-> TRUE]

\* A compute_coi_weights that returns the quotients as they are.
compute_coi_weights_unchecked(cois, horizon) ==
    LET rels == compute_coi_relevances(cois, horizon)
        relevances == [i \in 1..Len(rels) |-> Transformed(rels[i])]
        rel_sum == SumSeq(relevances)
    IN  [i \in 1..Len(relevances) |-> Quotient(relevances[i], rel_sum)]

compute_coi_weights(cois, horizon) ==
    LET rels == compute_coi_relevances(cois, horizon)
        relevances == [i \in 1..Len(rels) |-> Transformed(rels[i])]
        rel_sum == SumSeq(relevances)
    IN  [i \in 1..Len(relevances) |->
            LET res == Quotient(relevances[i], rel_sum)
            IN  IF res = NaN THEN Rational(1, Len(cois)) ELSE res]

\* personalized_documents computes the weights of the positive CoIs.
coi_weights ==
    /\ pc = Idle("init")
    /\ \E n \in 1..MaxPositiveCois : \E cois \in [1..n -> PositiveCois] : \E horizon \in 1..2 :
          /\ args' = [cois |-> cois, horizon |-> horizon]
          /\ result' = Ok("compute_coi_weights", compute_coi_weights(cois, horizon))
    /\ pc' = Idle("compute_coi_weights")
    /\ UNCHANGED <<engine, stacks, ranker, markets, saved, snapshot, documents, cycle, calls>>

NextCoiWeights == coi_weights
SpecCoiWeights == Init /\ [][NextCoiWeights]_vars

\* The transformed relevances of the CoIs of the call.
TransformedRelevances ==
    LET rels == compute_coi_relevances(args.cois, args.horizon)
    IN  [i \in 1..Len(rels) |-> Transformed(rels[i])]

\* C25: compute_coi_weights returns one weight for every positive CoI: the
\* uniform weight 1 / len when the transformed relevances sum to zero, and
\* the relevances divided by their sum otherwise; the weights sum to 1.
C25_WeightsSumToOne ==
    pc = Idle("compute_coi_weights") =>
        LET weights == result.documents
            rel_sum == SumSeq(TransformedRelevances)
        IN  /\ Len(weights) = Len(args.cois)
            /\ \A i \in 1..Len(weights) :
                  /\ DOMAIN weights[i] = {"num", "den"}
                  /\ weights[i].den > 0
                  /\ rel_sum = 0 => weights[i] = Rational(1, Len(args.cois))
                  /\ rel_sum # 0 => weights[i] = Rational(TransformedRelevances[i], rel_sum)
            /\ \A i \in 1..Len(weights) : weights[i].den = weights[1].den
            /\ SumSeq([k \in 1..Len(weights) |-> weights[k].num]) = weights[1].den

C25_Witness ==
    /\ pc = Idle("compute_coi_weights")
    /\ Len(args.cois) = 3
    /\ \A i \in 1..3 : args.cois[i].views > 0 /\ args.cois[i].age >= args.horizon
    /\ \A i \in 1..3 : result.documents[i] = Rational(1, 3)

(***************************************************************************)
(* The bindings: every call locks the shared engine, runs the operation    *)
(* of the Engine on the guard and drops the guard when its result is       *)
(* built.  Here pc, args and result are per caller, and engine is          *)
(* "updating" while an operation has updated the state only partly.        *)
(***************************************************************************)
MaxCallers == 2
Callers == 1..MaxCallers

\* A binding that drops the guard of the engine once the operation has
\* started.
HoldsGuardUntilStarted(position) == position = "locked"

\* The positions of a call at which it holds the guard of engine.lock():
\* from the lock, through the awaits of the operation, until the result is
\* built.
HoldsGuard(position) == position \in {"locked", "operation", "result"}

InitBindings ==
    /\ engine = "ready"
    /\ stacks = EmptyMap
    /\ ranker = NewRanker
    /\ markets = <<>>
    /\ saved = <<>>
    /\ snapshot = NoSnapshot
    /\ pc = [c \in Callers |-> "idle"]
    /\ args = [c \in Callers |-> "none"]
    /\ documents = <<>>
    /\ result = [c \in Callers |-> "none"]
    /\ cycle = NoCycle
    /\ calls = 0

\* A binding is called.
binding_called(c) ==
    /\ pc[c] = "idle"
    /\ \E op \in {"set_markets", "feed_next_batch", "time_spent", "user_reacted",
                  "search_by_query"} :
          args' = [args EXCEPT ![c] = op]
    /\ pc' = [pc EXCEPT ![c] = "lock"]
    /\ result' = [result EXCEPT ![c] = "none"]
    /\ UNCHANGED <<engine, stacks, ranker, markets, saved, snapshot, documents, cycle, calls>>

\* engine.as_ref().lock().await: the call gets the guard when no other
\* call holds it.
lock_engine(c) ==
    /\ pc[c] = "lock"
    /\ \A other \in Callers \ {c} : ~HoldsGuard(pc[other])
    /\ pc' = [pc EXCEPT ![c] = "locked"]
    /\ UNCHANGED <<engine, stacks, ranker, markets, saved, snapshot, args, documents,
                   result, cycle, calls>>

\* The operation of the Engine starts: it reads the state, updates a part of
\* it and awaits; result keeps the state the call has found.
operation_started(c) ==
    /\ pc[c] = "locked"
    /\ result' = [result EXCEPT ![c] = engine]
    /\ engine' = "updating"
    /\ pc' = [pc EXCEPT ![c] = "operation"]
    /\ UNCHANGED <<stacks, ranker, markets, saved, snapshot, args, documents, cycle, calls>>

\* The operation completes its update and the result is built.
operation_completed(c) ==
    /\ pc[c] = "operation"
    /\ engine' = "ready"
    /\ pc' = [pc EXCEPT ![c] = "result"]
    /\ UNCHANGED <<stacks, ranker, markets, saved, snapshot, args, documents, result,
                   cycle, calls>>

\* The binding returns the result; its guard is dropped.
binding_returned(c) ==
    /\ pc[c] = "result"
    /\ pc' = [pc EXCEPT ![c] = "idle"]
    /\ UNCHANGED <<engine, stacks, ranker, markets, saved, snapshot, args, documents,
                   result, cycle, calls>>

NextBindings ==
    \E c \in Callers :
        \/ binding_called(c)
        \/ lock_engine(c)
        \/ operation_started(c)
        \/ operation_completed(c)
        \/ binding_returned(c)
SpecBindings == InitBindings /\ [][NextBindings]_vars

\* C26: the operations of the Engine called through the bindings exclude
\* each other: at most one call is between its lock and its result, and no
\* operation finds or changes a state that another one has partly updated.
C26_OperationsMutuallyExclusive ==
    /\ Cardinality({c \in Callers : pc[c] \in {"locked", "operation", "result"}}) <= 1
    /\ \A c \in Callers : result[c] # "updating"
    /\ engine = "updating" => \E c \in Callers : pc[c] = "operation"

C26_Witness ==
    /\ pc[1] = "operation"
    /\ args[1] = "user_reacted"
    /\ pc[2] = "lock"
    /\ args[2] = "feed_next_batch"
    /\ engine = "updating"

(***************************************************************************)
(* The order in which the requests of BreakingNews::new_items complete.    *)
(***************************************************************************)
\* The handles of the call in another order of completion.
Reordered(handles, order) == [i \in 1..Len(handles) |-> handles[order[i]]]

\* The articles of all the requests of the call that returned a batch.
RECURSIVE ArticlesOf(_)
ArticlesOf(handles) ==
    IF handles = <<>> THEN <<>>
    ELSE (IF Head(handles).kind = "Ok" THEN Head(handles).batch ELSE <<>>)
             \o ArticlesOf(Tail(handles))

\* C27: the outcome of BreakingNews::new_items does not depend on the order
\* in which the requests complete: every order gives the same Ok or Err
\* and, for Ok, the same articles with the same multiplicities; and the
\* articles of an Ok are those of all the requests, so none is left out.
C27_IndependentOfCompletionOrder ==
    NewItemsReturned =>
        /\ \A order \in Orders(1..Len(args.handles)) :
              LET other == NewItems(TRUE, Reordered(args.handles, order))
              IN  /\ other.ok = result.ok
                  /\ result.ok =>
                         \A article \in 1..3 :
                             Occurrences(other.documents, article)
                                 = Occurrences(result.documents, article)
        /\ result.ok =>
               \A article \in 1..3 :
                   Occurrences(result.documents, article)
                       = Occurrences(ArticlesOf(args.handles), article)

C27_Witness ==
    /\ NewItemsReturned
    /\ args.handles = <<RequestErr("Timeout"), RequestOk(<<2, 3>>), RequestOk(<<1>>)>>
    /\ result = Ok("new_items", <<2, 3, 1>>)

(***************************************************************************)
(* The Stacks after an update cycle.                                       *)
(***************************************************************************)
\* C28: a Stack whose fetch, filter, embedding or document construction
\* fails in an update cycle is left exactly as it was before the cycle:
\* nothing is merged, it is not ranked again, and retain_top is not applied;
\* one article that cannot be embedded or constructed discards the batch.
C28_FailedStackLeftAsBefore ==
    [][UpdateStep =>
          \A id \in DOMAIN stacks :
              cycle'[id] \in ErrorKinds => stacks'[id] = stacks[id]]_vars

C28_Witness ==
    /\ pc.at = "idle"
    /\ \E id \in DOMAIN stacks :
          /\ id \in DOMAIN cycle
          /\ cycle[id] \in {"Ranker", "Document"}
          /\ stacks[id].documents # <<>>

\* C29: after an update cycle every Stack that was updated in it holds at
\* most keep_top documents: retain_top(keep_top) is applied after each
\* successful update, and to no other Stack.
C29_UpdatedStackHoldsAtMostKeepTop ==
    [][UpdateStep =>
          \A id \in DOMAIN stacks :
              /\ cycle'[id] = "none" => Len(stacks'[id].documents) <= keep_top
              /\ cycle'[id] = "skipped" => stacks'[id] = stacks[id]]_vars

C29_Witness ==
    /\ pc.at = "idle"
    /\ \E id \in DOMAIN stacks :
          /\ id \in DOMAIN cycle
          /\ cycle[id] = "none"
          /\ Len(stacks[id].documents) = keep_top

====
